---- MODULE Spec2Model ----
(***************************************************************************)
(* A model of the consistent-hashing ring of src/src/hashing_ring.rs and   *)
(* of the binary search of src/src/bisect.rs.                              *)
(*                                                                         *)
(* Rust vectors are indexed from 0 and TLA+ sequences from 1: every index  *)
(* of the model is a Rust index, and At(v, i) reads v[i].                  *)
(* An Option is a sequence of length at most one: None is << >> and        *)
(* Some(x) is <<x>>.                                                       *)
(***************************************************************************)
EXTENDS Integers, Sequences, FiniteSets, TLC

VARIABLES
    nodes,            \* the argument real_nodes of ConsistentHashing::new
    setting,          \* the argument interleave_count_setting of new
    md5,              \* the digest function md5::compute, text -> 16 bytes
    pc,               \* "start" before new, "built" after it, "panicked" if it panicked
    hashing_ring,     \* field hashing_ring: HashMap<u32, T>
    real_nodes,       \* field real_nodes: HashMap<String, T>
    sorted_keys,      \* field sorted_keys: Vec<u32>
    interleave_count, \* field interleave_count
    total_weight,     \* field total_weight
    factors,          \* the value of the local `factor` for each node of the list
    last,             \* the last get_node call: None, or Some([key, pos, result])
    asked,            \* for each key, the result of its first get_node call
    bis               \* a call of bisect_right: its arguments and its result

vars == <<nodes, setting, md5, pc, hashing_ring, real_nodes, sorted_keys,
          interleave_count, total_weight, factors, last, asked, bis>>

ringVars == <<nodes, setting, md5, pc, hashing_ring, real_nodes, sorted_keys,
              interleave_count, total_weight, factors, last, asked>>

(***************************************************************************)
(* Bounds of the model.                                                    *)
(***************************************************************************)
MaxLen == 3          \* longest drawn vector given to bisect_right
MaxVal == 3          \* largest drawn element and search key of bisect_right
MaxNodes == 2        \* longest node list given to new
MaxWeight == 2       \* largest node weight
MaxInterleave == 1   \* largest explicit interleave count, besides the default
MaxSeeds == 1        \* largest number of placement seeds drawn for one node

None == << >>
Some(x) == <<x>>
At(v, i) == v[i + 1]

Range(s) == {s[i] : i \in 1..Len(s)}

EmptyMap == [x \in {} |-> 0]

\* HashMap::insert: the entry of key k is written, or overwritten.
MapInsert(m, k, v) == [x \in DOMAIN m \cup {k} |-> IF x = k THEN v ELSE m[x]]

(***************************************************************************)
(* bisect.rs                                                               *)
(***************************************************************************)

\* The comparison of line 29 taken the other way (bisect_left).
BisectGoesLeftOrEqual(search_key, elem) == search_key <= elem

\* Line 29: search_key < sorted_key[mid].
BisectGoesLeft(search_key, elem) == search_key < elem

\* The loop of lines 27-34, from the current lo and hi.
RECURSIVE BisectLoop(_, _, _, _)
BisectLoop(sorted_key, search_key, lo, hi) ==
    IF lo < hi
    THEN LET mid == (lo + hi) \div 2
         IN  IF BisectGoesLeft(search_key, At(sorted_key, mid))
             THEN BisectLoop(sorted_key, search_key, lo, mid)
             ELSE BisectLoop(sorted_key, search_key, mid + 1, hi)
    ELSE lo

\* bisect_right: lo and hi are Options, defaulting to 0 and to the length.
bisect_right(sorted_key, search_key, lo, hi) ==
    LET hi0 == IF hi = None THEN Len(sorted_key) ELSE hi[1]
        lo0 == IF lo = None THEN 0 ELSE lo[1]
    IN  BisectLoop(sorted_key, search_key, lo0, hi0)

\* The vector of tests::test_besect.
TestVec == <<1, 2, 3, 4, 5>>

AscendingSeqs(n, vals) ==
    {s \in [1..n -> vals] : \A i \in 1..(n - 1) : s[i] <= s[i + 1]}

BisectVectors ==
    UNION {AscendingSeqs(n, 0..MaxVal) : n \in 0..MaxLen} \cup {TestVec}

BisectKeys == 0..MaxVal \cup {3, 6}

OptIndex(n) == {None} \cup {Some(i) : i \in 0..n}

NoBisect == [seq |-> << >>, key |-> 0, lo |-> None, hi |-> None, res |-> None]

\* The arguments of a bisect_right call: an ascending vector, a key and a
\* range 0 <= lo <= hi <= len, each end given or left to its default.
BisectArgs ==
    \E s \in BisectVectors, k \in BisectKeys :
        \E lo \in OptIndex(Len(s)), hi \in OptIndex(Len(s)) :
            /\ (IF lo = None THEN 0 ELSE lo[1]) <= (IF hi = None THEN Len(s) ELSE hi[1])
            /\ bis = [seq |-> s, key |-> k, lo |-> lo, hi |-> hi, res |-> None]

BisectCall ==
    /\ bis.res = None
    /\ bis' = [bis EXCEPT !.res = Some(bisect_right(bis.seq, bis.key, bis.lo, bis.hi))]
    /\ UNCHANGED ringVars

(***************************************************************************)
(* hashing_ring.rs: the node descriptors and the hashing utilities         *)
(***************************************************************************)

NodeNames == {"a", "b"}

\* NodeInfoWithWeigth; a NodeInfo is the descriptor whose weight is 1.
NodeValues == [node_name : NodeNames, weight : 0..MaxWeight]

to_string(node) == node.node_name

get_weight(node) == node.weight

\* format!("{}-{}", node_entity.to_string(), j)
SeedText(name, j) == name \o "-" \o ToString(j)

\* The keys looked up: the seed text of node "a", whose ring coordinate is
\* the coordinate of a placement of "a", and a text that seeds no placement.
Keys == {SeedText("a", 0), "k"}

Texts == {SeedText(n, j) : n \in NodeNames, j \in 0..(MaxSeeds - 1)} \cup Keys

\* The digests md5 may give.  A coordinate is a u32; the top byte of each
\* folded group stays below 128 so that the coordinate fits TLC's integers.
DigestPool ==
    { <<1, 0, 0, 0,   3, 0, 0, 0,   2, 0, 0, 0,   9, 9, 9, 9>>,
      <<0, 0, 0, 1,   1, 0, 0, 0,   0, 3, 2, 0,   5, 5, 5, 5>> }

\* md5::compute(key) is a fixed function of the text.
hash_digest(key) == md5[key]

\* The four bytes entry_fn selects, folded into a u32; the shifted bytes do
\* not overlap, so the bitwise or is their sum.
hash_val(b_key, entry_fn) ==
      At(b_key, entry_fn[3]) * 16777216
    + At(b_key, entry_fn[2]) * 65536
    + At(b_key, entry_fn[1]) * 256
    + At(b_key, entry_fn[0])

\* The closure |x| x + i*4 of line 68.
Interleaved(i) == [x \in 0..3 |-> x + i * 4]

\* The closure |x| x of line 135.
Identity == [x \in 0..3 |-> x]

gen_key(string_key) == hash_val(hash_digest(string_key), Identity)

(***************************************************************************)
(* hashing_ring.rs: the ring builder                                       *)
(***************************************************************************)

DefaultInterleave == 40

\* Lines 30-33: the interleave count of the setting, 40 when there is none.
InterleaveOf(s) == IF s = None THEN DefaultInterleave ELSE s[1]

\* Lines 52-55: the sum of the weights of the first n nodes of the list.
RECURSIVE SumWeights(_, _)
SumWeights(list, n) ==
    IF n = 0 THEN 0 ELSE SumWeights(list, n - 1) + get_weight(list[n])

\* Line 63: the weight that enters the placement count of a node.
LocalWeight(node_entity) == 0

\* Line 64, where total is not 0: the placement seeds of one node.  The
\* product stays far below the width of usize within the bounds.
Factor(ic, nodes_num, weight, total) == (ic * nodes_num * weight) \div total

\* Line 64 divides by total_weight in the first round of the loop over the
\* nodes: new panics when the list is not empty and the weights sum to 0.
DividesByZero(list) == Len(list) > 0 /\ SumWeights(list, Len(list)) = 0

\* The ring under construction: the two collections the placement loop writes.
EmptyRing == [hashing_ring |-> EmptyMap, sorted_keys |-> << >>]

\* Lines 68-70 with the map insert left out.
PlaceCoordNoInsert(ring, node_entity, b_key, i) ==
    [ring EXCEPT !.sorted_keys = Append(@, hash_val(b_key, Interleaved(i)))]

\* Lines 68-70: one coordinate of a seed is inserted in the map and pushed.
PlaceCoord(ring, node_entity, b_key, i) ==
    LET key == hash_val(b_key, Interleaved(i))
    IN  [hashing_ring |-> MapInsert(ring.hashing_ring, key, node_entity),
         sorted_keys  |-> Append(ring.sorted_keys, key)]

\* Lines 66-71: the three coordinates of seed j of a node.
PlaceSeed(ring, node_entity, j) ==
    LET b_key == hash_digest(SeedText(to_string(node_entity), j))
    IN  PlaceCoord(PlaceCoord(PlaceCoord(ring, node_entity, b_key, 0),
                              node_entity, b_key, 1),
                   node_entity, b_key, 2)

\* Lines 65-72: the seeds 0 .. factor-1 of a node, in order.
RECURSIVE PlaceSeeds(_, _, _)
PlaceSeeds(ring, node_entity, factor) ==
    IF factor = 0 THEN ring
    ELSE PlaceSeed(PlaceSeeds(ring, node_entity, factor - 1), node_entity, factor - 1)

\* Lines 58-73: the first n nodes of the list, node i with cnt[i] seeds.
RECURSIVE PlaceNodes(_, _, _)
PlaceNodes(list, cnt, n) ==
    IF n = 0 THEN EmptyRing
    ELSE PlaceSeeds(PlaceNodes(list, cnt, n - 1), list[n], cnt[n])

\* Line 61: the identity map after the first n nodes of the list.
RECURSIVE RegisterNodes(_, _)
RegisterNodes(list, n) ==
    IF n = 0 THEN EmptyMap
    ELSE MapInsert(RegisterNodes(list, n - 1), to_string(list[n]), list[n])

RECURSIVE InsertSorted(_, _)
InsertSorted(s, x) ==
    IF s = << >> THEN <<x>>
    ELSE IF x < s[Len(s)] THEN Append(InsertSorted(SubSeq(s, 1, Len(s) - 1), x), s[Len(s)])
    ELSE Append(s, x)

RECURSIVE SortPrefix(_, _)
SortPrefix(s, n) ==
    IF n = 0 THEN << >> ELSE InsertSorted(SortPrefix(s, n - 1), s[n])

\* Line 74 left out.
NoSort(s) == s

\* Line 74: sorted_keys.sort(), ascending.
Sort(s) == SortPrefix(s, Len(s))

\* generate_hashing_ring from line 58 on, node i of the list getting cnt[i]
\* placement seeds.
Generate(cnt) ==
    LET ring == PlaceNodes(nodes, cnt, Len(nodes))
    IN  /\ total_weight' = SumWeights(nodes, Len(nodes))
        /\ real_nodes' = RegisterNodes(nodes, Len(nodes))
        /\ hashing_ring' = ring.hashing_ring
        /\ sorted_keys' = Sort(ring.sorted_keys)
        /\ factors' = cnt
        /\ pc' = "built"
        /\ UNCHANGED <<nodes, setting, md5, interleave_count, last, asked, bis>>

\* The seed counts line 64 computes for the nodes of the list.
ComputedFactors ==
    [i \in 1..Len(nodes) |->
        Factor(interleave_count, Len(nodes), LocalWeight(nodes[i]),
               SumWeights(nodes, Len(nodes)))]

\* generate_hashing_ring, called by new at line 42.
generate_hashing_ring ==
    /\ pc = "start"
    /\ IF DividesByZero(nodes)
       THEN /\ pc' = "panicked"
            /\ UNCHANGED <<nodes, setting, md5, hashing_ring, real_nodes, sorted_keys,
                           interleave_count, total_weight, factors, last, asked, bis>>
       ELSE Generate(ComputedFactors)

\* The placement loop of generate_hashing_ring run for any seed counts: the
\* count the code computes for a node is one of them.
GenerateWithCounts ==
    /\ pc = "start"
    /\ ~DividesByZero(nodes)
    /\ \E cnt \in [1..Len(nodes) -> 0..MaxSeeds] : Generate(cnt)

(***************************************************************************)
(* hashing_ring.rs: the ring query                                         *)
(***************************************************************************)

\* Line 94 left out: the ring is never taken to be empty.
NeverEmpty(ring) == FALSE

\* Line 94: self.hashing_ring.len() <= 0.
IsEmpty(ring) == Cardinality(DOMAIN ring) <= 0

\* Lines 102-106 without the wrap.
NoWrap(pos, len) == pos

\* Lines 102-106: the position past the end wraps to 0.
Wrap(pos, len) == IF pos = len THEN 0 ELSE pos

\* get_node_pos: the position in sorted_keys of the placement of the key.
\* The source returns None on the empty ring and the bare position
\* otherwise (lines 103, 105); get_node matches the result as an Option, so
\* the position is Some(pos).
get_node_pos(string_key) ==
    IF IsEmpty(hashing_ring) THEN None
    ELSE LET key == gen_key(string_key)
             pos == bisect_right(sorted_keys, key, None, None)
         IN  Some(Wrap(pos, Len(sorted_keys)))

Returned(opt) == [panic |-> FALSE, ret |-> opt]
Panicked == [panic |-> TRUE, ret |-> None]

\* get_node: the node the mapping holds for the coordinate at the position,
\* as Some(node).  Indexing the vector out of bounds or the map at a
\* missing key panics.
get_node(string_key) ==
    LET pos == get_node_pos(string_key)
    IN  IF pos = None THEN Returned(None)
        ELSE IF pos[1] >= Len(sorted_keys) THEN Panicked
        ELSE IF At(sorted_keys, pos[1]) \notin DOMAIN hashing_ring THEN Panicked
        ELSE Returned(Some(hashing_ring[At(sorted_keys, pos[1])]))

\* What a get_node call leaves in last and asked: the key, the position
\* get_node_pos gave, the result, and whether the key was asked before.
Recorded(string_key) ==
    /\ last' = Some([key |-> string_key, pos |-> get_node_pos(string_key),
                     result |-> get_node(string_key)])
    /\ asked' = IF asked[string_key] = None
                THEN [asked EXCEPT ![string_key] =
                          Some([result |-> get_node(string_key), again |-> FALSE])]
                ELSE [asked EXCEPT ![string_key] =
                          Some([result |-> asked[string_key][1].result, again |-> TRUE])]

\* A lookup that takes the placement it finds out of the sequence.
GetNodeConsuming(string_key) ==
    LET pos == get_node_pos(string_key)
    IN  /\ pc = "built"
        /\ Recorded(string_key)
        /\ sorted_keys' = IF pos = None \/ sorted_keys = << >> THEN sorted_keys
                          ELSE SubSeq(sorted_keys, 1, pos[1]) \o
                               SubSeq(sorted_keys, pos[1] + 2, Len(sorted_keys))
        /\ UNCHANGED <<nodes, setting, md5, pc, hashing_ring, real_nodes,
                       interleave_count, total_weight, factors, bis>>

\* A call of get_node(&self, key) on the built ring: it reads the ring.
GetNode(string_key) ==
    /\ pc = "built"
    /\ Recorded(string_key)
    /\ UNCHANGED <<nodes, setting, md5, pc, hashing_ring, real_nodes, sorted_keys,
                   interleave_count, total_weight, factors, bis>>

Locate == \E k \in Keys : GetNode(k)

(***************************************************************************)
(* Specifications                                                          *)
(***************************************************************************)

NodeLists(values) == UNION {[1..n -> values] : n \in 0..MaxNodes}

Settings == {None} \cup {Some(c) : c \in 0..MaxInterleave}

\* Lines 34-40: the ring new creates before it calls generate_hashing_ring.
Created ==
    /\ pc = "start"
    /\ hashing_ring = EmptyMap
    /\ real_nodes = EmptyMap
    /\ sorted_keys = << >>
    /\ interleave_count = InterleaveOf(setting)
    /\ total_weight = 0
    /\ factors = << >>
    /\ last = None
    /\ asked = [k \in Keys |-> None]

\* new on any node list and setting, then get_node on the ring it returns.
Init ==
    /\ nodes \in NodeLists(NodeValues)
    /\ setting \in Settings
    /\ md5 \in [Texts -> DigestPool]
    /\ Created
    /\ bis = NoBisect

Next == generate_hashing_ring \/ Locate

Spec == Init /\ [][Next]_vars

\* The descriptors of the rings with placements: two nodes of weight 1 and
\* a second descriptor of the name "a", of another weight.
RingNodeValues ==
    [node_name : NodeNames, weight : {1}] \cup {[node_name |-> "a", weight |-> 1 + MaxWeight]}

\* The placement loop and the query on rings with placements: each node of
\* the list gets any number of seeds up to MaxSeeds.
InitRing ==
    /\ nodes \in NodeLists(RingNodeValues)
    /\ setting = None
    /\ md5 \in [Texts -> DigestPool]
    /\ Created
    /\ bis = NoBisect

NextRing == GenerateWithCounts \/ Locate

SpecRing == InitRing /\ [][NextRing]_vars

\* bisect_right alone, on drawn arguments.
InitBisect ==
    /\ BisectArgs
    /\ nodes = << >>
    /\ setting = None
    /\ md5 = [t \in Texts |-> CHOOSE d \in DigestPool : TRUE]
    /\ Created

NextBisect == BisectCall

SpecBisect == InitBisect /\ [][NextBisect]_vars

(***************************************************************************)
(* Properties                                                              *)
(***************************************************************************)

Built == pc = "built"

Called == last # None

SetMin(S) == CHOOSE x \in S : \A y \in S : x <= y

RECURSIVE SumSeq(_, _)
SumSeq(s, n) == IF n = 0 THEN 0 ELSE SumSeq(s, n - 1) + s[n]

BisLo == IF bis.lo = None THEN 0 ELSE bis.lo[1]
BisHi == IF bis.hi = None THEN Len(bis.seq) ELSE bis.hi[1]

\* C1: on an ascending vector and a range 0 <= lo <= hi <= len (lo 0 and hi
\* len by default), bisect_right returns i with lo <= i <= hi, every element
\* of the range before i is <= x and every element of the range from i on is
\* > x; it returns hi when x is above the whole range,
\* bisect_right([1,2,3,4,5], 6) = 5 and bisect_right([1,2,3,4,5], 3) = 3.
BisectRightContract ==
    bis.res # None =>
        LET i == bis.res[1]
        IN  /\ BisLo <= i /\ i <= BisHi
            /\ \A j \in BisLo..(i - 1) : At(bis.seq, j) <= bis.key
            /\ \A j \in i..(BisHi - 1) : At(bis.seq, j) > bis.key
            /\ (\A j \in BisLo..(BisHi - 1) : At(bis.seq, j) < bis.key) => i = BisHi
            /\ (bis.seq = TestVec /\ bis.lo = None /\ bis.hi = None /\ bis.key = 6) => i = 5
            /\ (bis.seq = TestVec /\ bis.lo = None /\ bis.hi = None /\ bis.key = 3) => i = 3

\* bisect_right([1,2,3,4,5], 3, 1, 4) has returned 3, right of the 3 at index 2.
BisectRightReached ==
    /\ bis.seq = TestVec /\ bis.key = 3
    /\ bis.lo = Some(1) /\ bis.hi = Some(4)
    /\ bis.res = Some(3)

\* The coordinate of the key of the last call.
LastCoord == gen_key(last[1].key)

\* The positions whose coordinate is at or after c, and strictly after c.
AtOrAfter(c) == {p \in 0..(Len(sorted_keys) - 1) : At(sorted_keys, p) >= c}
After(c) == {p \in 0..(Len(sorted_keys) - 1) : At(sorted_keys, p) > c}

OwnerAt(p) == hashing_ring[At(sorted_keys, p)]

PlacementCountByWeight ==
    Built =>
        /\ \A i \in 1..Len(nodes) :
               factors[i] = (interleave_count * Len(nodes) * get_weight(nodes[i]))
                                \div total_weight
        /\ Len(sorted_keys) = 3 * SumSeq(factors, Len(factors))

\* C4: on the ring of a single node of weight 1 and interleave count 40,
\* get_node returns that node for every key.
SingleNodeLocated ==
    (Built /\ Called /\ Len(nodes) = 1 /\ interleave_count = 40) =>
        (get_weight(nodes[1]) = 1 => last[1].result = Returned(Some(nodes[1])))

\* C5: on a ring with at least one placement get_node returns Some(node),
\* never None, and does not fall off the end of the sequence.
LocateCovers ==
    (Built /\ Called /\ Len(sorted_keys) >= 1) =>
        /\ ~last[1].result.panic
        /\ last[1].result.ret # None
        /\ last[1].result.ret[1] \in Range(nodes)

\* A lookup of a key above every placement has wrapped to index 0.
LocateWrappedReached ==
    /\ Built /\ Called /\ Len(sorted_keys) >= 1
    /\ \A p \in 0..(Len(sorted_keys) - 1) : At(sorted_keys, p) < LastCoord
    /\ last[1].pos = Some(0)
    /\ last[1].result = Returned(Some(OwnerAt(0)))

\* C6: construction never faults on a list with weights >= 0, a total
\* weight of 0 included, and a node of weight 0 gets no placement.
ConstructionTotal ==
    /\ pc # "panicked"
    /\ Built => \A i \in 1..Len(nodes) : get_weight(nodes[i]) = 0 => factors[i] = 0

\* C7: new on the empty list raises no error and builds a ring with no
\* placement, total weight 0, on which get_node returns None.
EmptyListEmptyRing ==
    nodes = << >> =>
        /\ pc # "panicked"
        /\ Built => /\ sorted_keys = << >>
                    /\ DOMAIN hashing_ring = {}
                    /\ total_weight = 0
                    /\ Called => last[1].result = Returned(None)

\* get_node has returned None on the ring of the empty list.
EmptyRingLocatedReached ==
    /\ nodes = << >> /\ Built /\ Called
    /\ last[1].result = Returned(None)

\* C8: after construction, and after any get_node calls, the coordinate
\* sequence is in non-decreasing order and each of its coordinates has an
\* entry in the coordinate-to-node mapping.
SortedAndMapped ==
    Built =>
        /\ \A p \in 0..(Len(sorted_keys) - 2) :
               At(sorted_keys, p) <= At(sorted_keys, p + 1)
        /\ \A p \in 0..(Len(sorted_keys) - 1) : At(sorted_keys, p) \in DOMAIN hashing_ring

\* The coordinates as the placement loop pushed them.
Pushed == PlaceNodes(nodes, factors, Len(nodes)).sorted_keys

\* A ring of two nodes whose coordinates were pushed out of order has been
\* built and queried.
SortedAfterLocateReached ==
    /\ Built /\ Called /\ Len(nodes) = 2
    /\ Len(sorted_keys) = 6
    /\ Pushed # sorted_keys

\* C9: get_node changes no field of the ring, and every call for a key
\* returns what the first call for that key returned, whatever calls came
\* in between.
LocateReadsOnly ==
    [][Built =>
          /\ UNCHANGED <<hashing_ring, real_nodes, sorted_keys,
                         interleave_count, total_weight>>
          /\ \A k \in Keys :
                 (asked[k] # None /\ last' # None /\ last'[1].key = k)
                     => last'[1].result = asked[k][1].result]_vars

\* On a ring with placements both keys were looked up, one of them again
\* after the other, with the result of its first call.
LocateRepeatedReached ==
    /\ Built /\ Called /\ sorted_keys # << >>
    /\ \A k \in Keys : asked[k] # None
    /\ asked[last[1].key][1].again
    /\ last[1].result = asked[last[1].key][1].result
    /\ \E k \in Keys : last[1].result # asked[k][1].result

\* The nodes that wrote coordinate c, by their place in the list.
Writers(c) ==
    {i \in 1..Len(nodes) :
        \E j \in 0..(factors[i] - 1), k \in 0..2 :
            hash_val(hash_digest(SeedText(to_string(nodes[i]), j)), Interleaved(k)) = c}

SetMax(S) == CHOOSE x \in S : \A y \in S : y <= x

\* C10: after construction the keys of the mapping are the values of the
\* sequence, each mapped to the last node that wrote it, so the mapping is
\* empty exactly when the sequence is; a get_node call that passes the
\* emptiness check computes a valid index and finds its coordinate mapped.
MappingMatchesSequence ==
    Built =>
        /\ DOMAIN hashing_ring = Range(sorted_keys)
        /\ (DOMAIN hashing_ring = {}) <=> (sorted_keys = << >>)
        /\ \A c \in DOMAIN hashing_ring :
               Writers(c) # {} /\ hashing_ring[c] = nodes[SetMax(Writers(c))]
        /\ (Called /\ ~IsEmpty(hashing_ring)) =>
               /\ last[1].pos # None
               /\ last[1].pos[1] \in 0..(Len(sorted_keys) - 1)
               /\ At(sorted_keys, last[1].pos[1]) \in DOMAIN hashing_ring
               /\ ~last[1].result.panic /\ last[1].result.ret # None

\* A ring in which two nodes wrote one coordinate, kept once in the mapping
\* and twice in the sequence, has been queried.
SharedCoordinateReached ==
    /\ Built /\ Called
    /\ Len(sorted_keys) > Cardinality(DOMAIN hashing_ring)
    /\ \E c \in DOMAIN hashing_ring : Cardinality(Writers(c)) = 2
    /\ last[1].result.ret # None

====
